---- MODULE Spec2Model ----
(***************************************************************************)
(* Saml2Backend (djangosaml2/backends.py): authenticate, clean_username,   *)
(* configure_user and update_user over a user table and a profile table.   *)
(*                                                                         *)
(* A user row is a record username/email/password; an in-memory User is    *)
(* the row plus its primary key.  A profile row is a record email/phone    *)
(* keyed by the user's primary key.  An attribute mapping is the sequence  *)
(* of (saml_attr, django_fields) pairs that attribute_mapping.items()      *)
(* yields; an attribute bag maps saml attributes to non-empty value lists. *)
(***************************************************************************)
EXTENDS Naturals, Sequences, FiniteSets, TLC

VARIABLES
    db,        \* user table: primary key -> row
    profiles,  \* profile table: user primary key -> row
    hook,      \* which clean_username the backend class runs
    last,      \* the most recent completed call: arguments, pre-state, outcome
    procs      \* per request: position inside authenticate and its local variables

vars == <<db, profiles, hook, last, procs>>

\* ---------------------------------------------------------------- bounds

\* Number of requests that run authenticate concurrently.
NumProcs == 2

\* ---------------------------------------------------------------- values

\* `user = None` / `return None`: no account resolved.
NoAccount == 0

\* `saml_user = None`: no username value extracted.
NoValue == "<None>"

\* django.contrib.auth: the password of a row created without one, and the
\* marker set_unusable_password stores.
BlankPassword == ""
UNUSABLE_PASSWORD == "!"

Values == {"alice", "Alice"}
SamlAttrs == {"uid", "mail"}

\* ---------------------------------------------------------------- helpers

\* hasattr(obj, attr) on a model instance: the instance has that field.
hasattr(obj, attr) == attr \in DOMAIN obj

\* setattr(obj, attr, value)
setattr(obj, attr, value) == [obj EXCEPT ![attr] = value]

\* attributes[saml_attr][0] with more than one value kept (a plausible slip).
LastValue(attributes, saml_attr) == attributes[saml_attr][Len(attributes[saml_attr])]

\* attributes[saml_attr][0]: the first value of the attribute.
FirstValue(attributes, saml_attr) == attributes[saml_attr][1]

\* An override of clean_username that folds case.
Lower(username) == IF username = "Alice" THEN "alice" ELSE username

\* clean_username: the identity by default, an override otherwise.
clean_username(h, username) == IF h = "lower" THEN Lower(username) ELSE username

\* The username loop of authenticate without the 'username' in django_fields test.
RECURSIVE ExtractAnyField(_, _, _)
ExtractAnyField(items, attributes, saml_user) ==
    IF items = <<>> THEN saml_user
    ELSE LET saml_attr == Head(items).attr
         IN  ExtractAnyField(Tail(items), attributes,
                 IF saml_attr \in DOMAIN attributes
                 THEN FirstValue(attributes, saml_attr) ELSE saml_user)

\* The username loop of authenticate stopping at the first match (a plausible slip).
RECURSIVE ExtractFirstMatch(_, _, _)
ExtractFirstMatch(items, attributes, saml_user) ==
    IF items = <<>> THEN saml_user
    ELSE LET saml_attr == Head(items).attr
             django_fields == Head(items).fields
         IN  IF /\ \E i \in DOMAIN django_fields : django_fields[i] = "username"
                /\ saml_attr \in DOMAIN attributes
             THEN FirstValue(attributes, saml_attr)
             ELSE ExtractFirstMatch(Tail(items), attributes, saml_user)

\* for saml_attr, django_fields in attribute_mapping.items(): every item that
\* lists 'username' and whose attribute is in the bag overwrites saml_user.
RECURSIVE ExtractSamlUser(_, _, _)
ExtractSamlUser(items, attributes, saml_user) ==
    IF items = <<>> THEN saml_user
    ELSE LET saml_attr == Head(items).attr
             django_fields == Head(items).fields
         IN  ExtractSamlUser(Tail(items), attributes,
                 IF /\ \E i \in DOMAIN django_fields : django_fields[i] = "username"
                    /\ saml_attr \in DOMAIN attributes
                 THEN FirstValue(attributes, saml_attr) ELSE saml_user)

\* ---------------------------------------------------------------- storage

\* The in-memory User object of row pk.
UserObject(d, pk) ==
    [id |-> pk, username |-> d[pk].username, email |-> d[pk].email,
     password |-> d[pk].password]

RowOf(user) ==
    [username |-> user.username, email |-> user.email, password |-> user.password]

\* The rows whose username is the one asked for.
ByUsername(d, username) == {pk \in DOMAIN d : d[pk].username = username}

\* get_or_create that never finds the row (a create that is not get-or-create).
get_or_create_blind(d, username) ==
    LET pk == Cardinality(DOMAIN d) + 1
        d1 == [k \in DOMAIN d \cup {pk} |->
                 IF k = pk
                 THEN [username |-> username, email |-> "", password |-> BlankPassword]
                 ELSE d[k]]
    IN  [db |-> d1, user |-> UserObject(d1, pk), created |-> TRUE]

\* User.objects.get_or_create(username=username), one atomic storage operation:
\* the row with that username, or a new row holding only the username.
get_or_create(d, username) ==
    IF ByUsername(d, username) # {}
    THEN [db |-> d, user |-> UserObject(d, CHOOSE pk \in ByUsername(d, username) : TRUE),
          created |-> FALSE]
    ELSE LET pk == Cardinality(DOMAIN d) + 1
             d1 == [k \in DOMAIN d \cup {pk} |->
                      IF k = pk
                      THEN [username |-> username, email |-> "",
                            password |-> BlankPassword]
                      ELSE d[k]]
         IN  [db |-> d1, user |-> UserObject(d1, pk), created |-> TRUE]

\* user.get_profile(): the set holding the profile row, empty for
\* ObjectDoesNotExist / SiteProfileNotAvailable (profile = None).
get_profile(p, user) == IF user.id \in DOMAIN p THEN {p[user.id]} ELSE {}

\* user.save() would break the unique username: it raises IntegrityError.
SaveConflict(d, user) ==
    \E pk \in DOMAIN d : pk # user.id /\ d[pk].username = user.username

\* user.save(): the whole in-memory object is written over its row.
save_user(d, user) == [d EXCEPT ![user.id] = RowOf(user)]

\* profile.save()
save_profile(p, pk, profile) == [p EXCEPT ![pk] = profile]

\* user.set_unusable_password() left out (a plausible slip).
set_unusable_password_noop(user) == user

\* user.set_unusable_password()
set_unusable_password(user) == [user EXCEPT !.password = UNUSABLE_PASSWORD]

\* ---------------------------------------------------------------- update_user

\* `not attribute_mapping`: None or an empty dict.
MappingEmpty(mapping) == ~mapping.present \/ mapping.items = <<>>

\* for attr in django_attrs, inside the try: the first attributes[saml_attr]
\* that is evaluated with saml_attr missing raises KeyError and ends the item.
\* st = [user, profile, user_modified, profile_modified]; profile is the set
\* get_profile gave.
RECURSIVE UpdateFields(_, _, _, _)
UpdateFields(st, django_attrs, saml_attr, attributes) ==
    IF django_attrs = <<>> THEN st
    ELSE LET attr == Head(django_attrs)
             profile == CHOOSE x \in st.profile : TRUE
         IN  IF hasattr(st.user, attr)
             THEN IF saml_attr \notin DOMAIN attributes THEN st
                  ELSE UpdateFields(
                         [st EXCEPT !.user = setattr(@, attr, FirstValue(attributes, saml_attr)),
                                    !.user_modified = TRUE],
                         Tail(django_attrs), saml_attr, attributes)
             ELSE IF st.profile # {} /\ hasattr(profile, attr)
             THEN IF saml_attr \notin DOMAIN attributes THEN st
                  ELSE UpdateFields(
                         [st EXCEPT !.profile = {setattr(profile, attr, FirstValue(attributes, saml_attr))},
                                    !.profile_modified = TRUE],
                         Tail(django_attrs), saml_attr, attributes)
             ELSE UpdateFields(st, Tail(django_attrs), saml_attr, attributes)

\* for saml_attr, django_attrs in attribute_mapping.items()
RECURSIVE UpdateItems(_, _, _)
UpdateItems(st, items, attributes) ==
    IF items = <<>> THEN st
    ELSE UpdateItems(UpdateFields(st, Head(items).fields, Head(items).attr, attributes),
                     Tail(items), attributes)

\* The in-memory part of update_user: profile lookup result in, both objects
\* and both flags out.
UpdateLoop(user, profile, attributes, mapping) ==
    UpdateItems([user |-> user, profile |-> profile,
                 user_modified |-> FALSE, profile_modified |-> FALSE],
                mapping.items, attributes)

\* The account is saved whatever the flags say (a plausible slip).
should_save_user_always(user_modified, force_save) == TRUE

\* if user_modified or force_save
should_save_user(user_modified, force_save) == user_modified \/ force_save

\* if profile is not None and (profile_modified or force_save)
should_save_profile(profile, profile_modified, force_save) ==
    profile # {} /\ (profile_modified \/ force_save)

\* update_user(user, attributes, attribute_mapping, force_save) run without
\* interruption on tables d, p.  An IntegrityError of user.save() propagates:
\* raised is set and nothing after it runs.
update_user(d, p, user, attributes, mapping, force_save) ==
    IF MappingEmpty(mapping)
    THEN [db |-> d, profiles |-> p, user |-> user, raised |-> FALSE,
          user_saved |-> FALSE, profile_saved |-> FALSE]
    ELSE LET st == UpdateLoop(user, get_profile(p, user), attributes, mapping)
             su == should_save_user(st.user_modified, force_save)
             sp == should_save_profile(st.profile, st.profile_modified, force_save)
         IN  IF su /\ SaveConflict(d, st.user)
             THEN [db |-> d, profiles |-> p, user |-> st.user, raised |-> TRUE,
                   user_saved |-> FALSE, profile_saved |-> FALSE]
             ELSE [db |-> IF su THEN save_user(d, st.user) ELSE d,
                   profiles |-> IF sp
                                THEN save_profile(p, user.id, CHOOSE x \in st.profile : TRUE)
                                ELSE p,
                   user |-> st.user, raised |-> FALSE,
                   user_saved |-> su, profile_saved |-> sp]

\* configure_user(user, attributes, attribute_mapping)
configure_user(d, p, user, attributes, mapping) ==
    update_user(d, p, set_unusable_password(user), attributes, mapping, TRUE)

\* ---------------------------------------------------------------- authenticate

\* The two early returns of authenticate: an argument is None, or
\* session_info has no 'ava' key.
InputsMissing(session_info, mapping) ==
    \/ ~session_info.present
    \/ ~mapping.present
    \/ ~session_info.has_ava

\* What authenticate gives back when it returns None before touching storage.
NoAccountResolved(d, p) ==
    [db |-> d, profiles |-> p, result |-> NoAccount, raised |-> FALSE,
     user_saved |-> FALSE, profile_saved |-> FALSE, ran |-> "none",
     created |-> FALSE]

\* The outcome of authenticate from the outcome o of the hook it ran.
Resolved(o, ran, created) ==
    [db |-> o.db, profiles |-> o.profiles,
     result |-> IF o.raised THEN NoAccount ELSE o.user.id,
     raised |-> o.raised, user_saved |-> o.user_saved,
     profile_saved |-> o.profile_saved, ran |-> ran, created |-> created]

\* The resolution policy with the create branch taken whatever the flag says.
ResolveAlwaysCreate(d, p, username, attributes, mapping, create_unknown_user) ==
    LET g == get_or_create(d, username)
    IN  IF g.created
        THEN Resolved(configure_user(g.db, p, g.user, attributes, mapping),
                      "configure", TRUE)
        ELSE Resolved(update_user(g.db, p, g.user, attributes, mapping, FALSE),
                      "update", FALSE)

\* if create_unknown_user: get_or_create, then configure_user or update_user;
\* else: get, then update_user, or None on DoesNotExist.
Resolve(d, p, username, attributes, mapping, create_unknown_user) ==
    IF create_unknown_user
    THEN LET g == get_or_create(d, username)
         IN  IF g.created
             THEN Resolved(configure_user(g.db, p, g.user, attributes, mapping),
                           "configure", TRUE)
             ELSE Resolved(update_user(g.db, p, g.user, attributes, mapping, FALSE),
                           "update", FALSE)
    ELSE IF ByUsername(d, username) = {}
         THEN NoAccountResolved(d, p)
         ELSE Resolved(update_user(d, p,
                           UserObject(d, CHOOSE pk \in ByUsername(d, username) : TRUE),
                           attributes, mapping, FALSE),
                       "update", FALSE)

\* authenticate(session_info, attribute_mapping, create_unknown_user) run
\* without interruption on tables d, p by a backend whose hook is h.
authenticate(d, p, h, session_info, mapping, create_unknown_user) ==
    IF InputsMissing(session_info, mapping)
    THEN NoAccountResolved(d, p)
    ELSE LET attributes == session_info.ava
             saml_user == ExtractSamlUser(mapping.items, attributes, NoValue)
         IN  IF saml_user = NoValue
             THEN NoAccountResolved(d, p)
             ELSE Resolve(d, p, clean_username(h, saml_user), attributes, mapping,
                          create_unknown_user)

\* ---------------------------------------------------------------- inputs

\* The value lists an attribute may carry: uid one value, mail two.
ValuesOf(saml_attr) ==
    IF saml_attr = "uid" THEN {<<"alice">>} ELSE {<<"Alice", "alice">>}

\* attributes: every bag over SamlAttrs.
Bags ==
    UNION {{b \in [S -> {<<"alice">>, <<"Alice", "alice">>}] :
               \A a \in S : b[a] \in ValuesOf(a)} : S \in SUBSET SamlAttrs}

\* An empty bag, also the filler of a session_info that has none.
EmptyBag == [a \in {} |-> <<>>]

\* session_info: None, a dict without 'ava', a dict with 'ava'.
SessionInfos ==
    {[present |-> FALSE, has_ava |-> FALSE, ava |-> EmptyBag],
     [present |-> TRUE, has_ava |-> FALSE, ava |-> EmptyBag]}
    \cup {[present |-> TRUE, has_ava |-> TRUE, ava |-> b] : b \in Bags}

\* django_fields lists: a field of the account (username), one of account and
\* profile (email), one of the profile alone (phone), one of neither (nickname).
MappingItems ==
    {[attr |-> "uid", fields |-> <<"username", "email">>],
     [attr |-> "uid", fields |-> <<"email">>],
     [attr |-> "mail", fields |-> <<"username">>],
     [attr |-> "mail", fields |-> <<"nickname", "phone">>]}

\* attribute_mapping.items() of a dict: the keys are distinct.
ItemLists ==
    {m \in UNION {[1..n -> MappingItems] : n \in 0..Cardinality(SamlAttrs)} :
        \A i, j \in DOMAIN m : i # j => m[i].attr # m[j].attr}

\* attribute_mapping: None or a dict.
NoMapping == [present |-> FALSE, items |-> <<>>]
Mappings == {NoMapping} \cup {[present |-> TRUE, items |-> m] : m \in ItemLists}

\* The tables a call may find: empty, or one account made outside this
\* backend (a local password, a profile row).
InitialDb == {<<>>, <<[username |-> "alice", email |-> "", password |-> "pw"]>>}

ProfileOf(d) == IF d = <<>> THEN <<>> ELSE <<[email |-> "", phone |-> ""]>>

\* No call yet.
NoCall ==
    [op |-> "none", session_info |-> [present |-> FALSE, has_ava |-> FALSE, ava |-> EmptyBag],
     attribute_mapping |-> NoMapping, create_unknown_user |-> FALSE,
     pk |-> NoAccount, force_save |-> FALSE, repeats |-> FALSE,
     pre_db |-> <<>>, pre_profiles |-> <<>>,
     result |-> NoAccount, raised |-> FALSE, user_saved |-> FALSE,
     profile_saved |-> FALSE, ran |-> "none", created |-> FALSE]

\* A request that has not entered authenticate.
Idle ==
    [pc |-> "idle", attributes |-> EmptyBag, mapping |-> NoMapping,
     create_unknown_user |-> FALSE, username |-> NoValue,
     user |-> [id |-> NoAccount, username |-> "", email |-> "", password |-> ""],
     profile |-> {}, created |-> FALSE, force_save |-> FALSE,
     user_modified |-> FALSE, profile_modified |-> FALSE,
     ran |-> "none", result |-> NoAccount, raised |-> FALSE]

Procs == 1..NumProcs

\* ---------------------------------------------------------------- sequential calls

Init ==
    /\ db \in InitialDb
    /\ profiles = ProfileOf(db)
    /\ hook = "identity"
    /\ last = NoCall
    /\ procs = [p \in Procs |-> Idle]

\* The record of a finished call.
Record(op, session_info, mapping, create_unknown_user, pk, force_save, o) ==
    [op |-> op, session_info |-> session_info, attribute_mapping |-> mapping,
     create_unknown_user |-> create_unknown_user, pk |-> pk,
     force_save |-> force_save,
     repeats |-> /\ last.op = op
                 /\ last.session_info = session_info
                 /\ last.attribute_mapping = mapping
                 /\ last.create_unknown_user = create_unknown_user
                 /\ last.result # NoAccount,
     pre_db |-> db, pre_profiles |-> profiles,
     result |-> o.result, raised |-> o.raised, user_saved |-> o.user_saved,
     profile_saved |-> o.profile_saved, ran |-> o.ran, created |-> o.created]

\* One whole call of authenticate.
Authenticate ==
    \E session_info \in SessionInfos, mapping \in Mappings,
       create_unknown_user \in BOOLEAN :
        LET o == authenticate(db, profiles, hook, session_info, mapping,
                              create_unknown_user)
        IN  /\ db' = o.db
            /\ profiles' = o.profiles
            /\ last' = Record("authenticate", session_info, mapping,
                              create_unknown_user, NoAccount, FALSE, o)
            /\ UNCHANGED <<hook, procs>>

Next == Authenticate

Spec == Init /\ [][Next]_vars

\* A backend class that may override clean_username.
InitHook ==
    /\ db \in InitialDb
    /\ profiles = ProfileOf(db)
    /\ hook \in {"identity", "lower"}
    /\ last = NoCall
    /\ procs = [p \in Procs |-> Idle]

SpecHook == InitHook /\ [][Next]_vars

\* ---------------------------------------------------------------- direct calls of the hooks

\* Tables with accounts made outside this backend: pk 1 has a profile row,
\* pk 2 (when there) has none.
InitialDbUpdate ==
    {<<[username |-> "alice", email |-> "", password |-> "pw"],
       [username |-> "Alice", email |-> "alice", password |-> BlankPassword]>>}

InitUpdate ==
    /\ db \in InitialDbUpdate
    /\ profiles = <<[email |-> "", phone |-> ""]>>
    /\ hook = "identity"
    /\ last = NoCall
    /\ procs = [p \in Procs |-> Idle]

\* The outcome of a hook as a call outcome.
HookOutcome(o, ran) ==
    [result |-> IF o.raised THEN NoAccount ELSE o.user.id, raised |-> o.raised,
     user_saved |-> o.user_saved, profile_saved |-> o.profile_saved,
     ran |-> ran, created |-> FALSE]

\* One whole call of update_user on a User loaded from the table.
UpdateUser ==
    \E pk \in DOMAIN db, attributes \in Bags, mapping \in Mappings,
       force_save \in BOOLEAN :
        LET o == update_user(db, profiles, UserObject(db, pk), attributes, mapping,
                             force_save)
        IN  /\ db' = o.db
            /\ profiles' = o.profiles
            /\ last' = Record("update_user",
                              [present |-> TRUE, has_ava |-> TRUE, ava |-> attributes],
                              mapping, FALSE, pk, force_save, HookOutcome(o, "update"))
            /\ UNCHANGED <<hook, procs>>

\* One whole call of configure_user on a User loaded from the table.
ConfigureUser ==
    \E pk \in DOMAIN db, attributes \in Bags, mapping \in Mappings :
        LET o == configure_user(db, profiles, UserObject(db, pk), attributes, mapping)
        IN  /\ db' = o.db
            /\ profiles' = o.profiles
            /\ last' = Record("configure_user",
                              [present |-> TRUE, has_ava |-> TRUE, ava |-> attributes],
                              mapping, FALSE, pk, TRUE, HookOutcome(o, "configure"))
            /\ UNCHANGED <<hook, procs>>

NextUpdate == UpdateUser \/ ConfigureUser

SpecUpdate == InitUpdate /\ [][NextUpdate]_vars

\* ---------------------------------------------------------------- concurrent requests

\* Each request runs authenticate once; a step is one storage operation
\* together with the in-memory code that follows it up to the next one.

\* The arguments the concurrent requests are given.
ConcSessions ==
    {[present |-> TRUE, has_ava |-> TRUE, ava |-> b] :
        b \in {c \in Bags : "uid" \in DOMAIN c}}
ConcMappings ==
    {[present |-> TRUE, items |-> <<[attr |-> "uid", fields |-> <<"username", "email">>]>>],
     [present |-> TRUE, items |-> <<[attr |-> "uid", fields |-> <<"username", "email">>],
                                    [attr |-> "mail", fields |-> <<"nickname", "phone">>]>>],
     [present |-> TRUE, items |-> <<[attr |-> "mail", fields |-> <<"username">>]>>]}

\* last keeps the tables as they were before the requests began.
InitConc ==
    /\ db \in InitialDb
    /\ profiles = ProfileOf(db)
    /\ hook = "identity"
    /\ last = [NoCall EXCEPT !.pre_db = db, !.pre_profiles = profiles]
    /\ procs = [p \in Procs |-> Idle]

\* The request is over: its locals are dropped, its outcome kept.
Finished(l, result, raised) ==
    [Idle EXCEPT !.pc = "done", !.username = l.username,
                 !.create_unknown_user = l.create_unknown_user,
                 !.created = l.created, !.ran = l.ran,
                 !.result = result, !.raised = raised]

\* authenticate up to its first storage operation: the early returns and the
\* username.
Enter(p) ==
    /\ procs[p].pc = "idle"
    /\ \E session_info \in ConcSessions, mapping \in ConcMappings,
          create_unknown_user \in BOOLEAN :
        LET saml_user == ExtractSamlUser(mapping.items, session_info.ava, NoValue)
            l == [procs[p] EXCEPT !.create_unknown_user = create_unknown_user]
        IN  procs' = [procs EXCEPT ![p] =
                IF InputsMissing(session_info, mapping) \/ saml_user = NoValue
                THEN Finished(l, NoAccount, FALSE)
                ELSE [l EXCEPT !.pc = "lookup", !.attributes = session_info.ava,
                               !.mapping = mapping,
                               !.username = clean_username(hook, saml_user)]]
    /\ UNCHANGED <<db, profiles, hook, last>>

\* get_or_create (or get), then set_unusable_password for a created user and
\* the empty-mapping test of update_user.
Lookup(p) ==
    /\ procs[p].pc = "lookup"
    /\ LET l == procs[p]
           g == IF l.create_unknown_user
                THEN get_or_create(db, l.username)
                ELSE [db |-> db, created |-> FALSE,
                      user |-> IF ByUsername(db, l.username) = {} THEN l.user
                               ELSE UserObject(db, CHOOSE pk \in ByUsername(db, l.username) : TRUE)]
           found == l.create_unknown_user \/ ByUsername(db, l.username) # {}
           user == IF g.created THEN set_unusable_password(g.user) ELSE g.user
           l1 == [l EXCEPT !.user = user, !.created = g.created,
                           !.force_save = g.created,
                           !.ran = IF ~found THEN "none"
                                   ELSE IF g.created THEN "configure" ELSE "update"]
       IN  /\ db' = g.db
           /\ procs' = [procs EXCEPT ![p] =
                 IF ~found THEN Finished(l1, NoAccount, FALSE)
                 ELSE IF MappingEmpty(l.mapping) THEN Finished(l1, user.id, FALSE)
                 ELSE [l1 EXCEPT !.pc = "get_profile"]]
    /\ UNCHANGED <<profiles, hook, last>>

\* Where update_user goes after its loop, or after user.save().
AfterLoop(l, user_done) ==
    IF ~user_done /\ should_save_user(l.user_modified, l.force_save)
    THEN [l EXCEPT !.pc = "save_user"]
    ELSE IF should_save_profile(l.profile, l.profile_modified, l.force_save)
    THEN [l EXCEPT !.pc = "save_profile"]
    ELSE Finished(l, l.user.id, FALSE)

\* user.get_profile(), then the loop over the mapping.
GetProfile(p) ==
    /\ procs[p].pc = "get_profile"
    /\ LET l == procs[p]
           st == UpdateLoop(l.user, get_profile(profiles, l.user), l.attributes, l.mapping)
       IN  procs' = [procs EXCEPT ![p] =
               AfterLoop([l EXCEPT !.user = st.user, !.profile = st.profile,
                                   !.user_modified = st.user_modified,
                                   !.profile_modified = st.profile_modified], FALSE)]
    /\ UNCHANGED <<db, profiles, hook, last>>

\* user.save()
SaveUser(p) ==
    /\ procs[p].pc = "save_user"
    /\ LET l == procs[p]
       IN  IF SaveConflict(db, l.user)
           THEN /\ procs' = [procs EXCEPT ![p] = Finished(l, NoAccount, TRUE)]
                /\ db' = db
           ELSE /\ procs' = [procs EXCEPT ![p] = AfterLoop(l, TRUE)]
                /\ db' = save_user(db, l.user)
    /\ UNCHANGED <<profiles, hook, last>>

\* profile.save()
SaveProfile(p) ==
    /\ procs[p].pc = "save_profile"
    /\ LET l == procs[p]
       IN  /\ profiles' = save_profile(profiles, l.user.id, CHOOSE x \in l.profile : TRUE)
           /\ procs' = [procs EXCEPT ![p] = Finished(l, l.user.id, FALSE)]
    /\ UNCHANGED <<db, hook, last>>

NextConc ==
    \E p \in Procs :
        \/ Enter(p)
        \/ Lookup(p)
        \/ GetProfile(p)
        \/ SaveUser(p)
        \/ SaveProfile(p)

SpecConc == InitConc /\ [][NextConc]_vars

\* ---------------------------------------------------------------- claims: authenticate

\* The items of a mapping that list 'username' and whose attribute is in the bag.
UsernameItems(mapping, attributes) ==
    {i \in DOMAIN mapping.items :
        /\ \E j \in DOMAIN mapping.items[i].fields : mapping.items[i].fields[j] = "username"
        /\ mapping.items[i].attr \in DOMAIN attributes}

\* The raw username of a call: the first bag value of the last such item.
RawUsername(mapping, attributes) ==
    LET u == UsernameItems(mapping, attributes)
        i == CHOOSE k \in u : \A n \in u : n <= k
    IN  attributes[mapping.items[i].attr][1]

\* The call recorded in last is an authenticate whose arguments name a username.
NamesUsername(call) ==
    /\ call.op = "authenticate"
    /\ call.session_info.present
    /\ call.session_info.has_ava
    /\ call.attribute_mapping.present
    /\ UsernameItems(call.attribute_mapping, call.session_info.ava) # {}

Usernames(d) == {d[pk].username : pk \in DOMAIN d}

\* C2: repeating authenticate(session_info, mapping, create_unknown_user=true)
\* with a username-mapped attribute in the bag returns the same stored account
\* (same primary key, same username) as the call before it and leaves the
\* number of stored accounts as the call before it left it.
C2_RepeatIsIdempotent ==
    [][(/\ NamesUsername(last)
        /\ last.create_unknown_user
        /\ last'.op = "authenticate"
        /\ last'.session_info = last.session_info
        /\ last'.attribute_mapping = last.attribute_mapping
        /\ last'.create_unknown_user)
       => /\ last.result # NoAccount
          /\ last'.result = last.result
          /\ ~last'.raised
          /\ Cardinality(DOMAIN db') = Cardinality(DOMAIN db)
          /\ db'[last'.result].username = db[last.result].username]_vars

C2_Witness ==
    /\ NamesUsername(last)
    /\ last.create_unknown_user
    /\ last.repeats
    /\ last.result # NoAccount
    /\ \E pk \in DOMAIN last.pre_db : pk # last.result

\* The failure cases of C3: an argument is None, session_info has no 'ava', or
\* no item both lists 'username' and has its attribute in the bag.
C3_Case ==
    /\ last.op = "authenticate"
    /\ \/ ~last.session_info.present
       \/ ~last.attribute_mapping.present
       \/ ~last.session_info.has_ava
       \/ UsernameItems(last.attribute_mapping, last.session_info.ava) = {}

\* C3: in each failure case, for either value of create_unknown_user,
\* authenticate returns no account without raising and leaves both tables as
\* they were, with no save performed.
C3_FailureLeavesStorage ==
    C3_Case =>
        /\ last.result = NoAccount
        /\ ~last.raised
        /\ db = last.pre_db
        /\ profiles = last.pre_profiles
        /\ ~last.user_saved
        /\ ~last.profile_saved
        /\ ~last.created

\* An empty bag with a mapping that does name the username, create enabled.
C3_Witness ==
    /\ C3_Case
    /\ last.session_info.has_ava
    /\ last.session_info.ava = EmptyBag
    /\ \E i \in DOMAIN last.attribute_mapping.items :
          last.attribute_mapping.items[i].fields = <<"username", "email">>
    /\ last.create_unknown_user

\* C4: with create_unknown_user=false authenticate creates no account and the
\* stored usernames stay the same; with no account of the resolved username it
\* returns no account, raises nothing and saves nothing; with one it returns
\* that account, after update_user ran on it.
C4_LookupOnlyNeverCreates ==
    (last.op = "authenticate" /\ ~last.create_unknown_user) =>
        /\ DOMAIN db = DOMAIN last.pre_db
        /\ Usernames(db) = Usernames(last.pre_db)
        /\ ~last.created
        /\ ~last.raised
        /\ NamesUsername(last) =>
             LET username == RawUsername(last.attribute_mapping, last.session_info.ava)
                 found == ByUsername(last.pre_db, username)
             IN  IF found = {}
                 THEN /\ last.result = NoAccount
                      /\ ~last.user_saved /\ ~last.profile_saved
                      /\ db = last.pre_db /\ profiles = last.pre_profiles
                 ELSE LET o == update_user(last.pre_db, last.pre_profiles,
                                   UserObject(last.pre_db, last.result),
                                   last.session_info.ava, last.attribute_mapping, FALSE)
                      IN  /\ last.result \in found
                          /\ last.ran = "update"
                          /\ db[last.result].username = username
                          /\ db = o.db /\ profiles = o.profiles

\* Lookup-only on an existing account whose email the call changes.
C4_Witness ==
    /\ last.op = "authenticate" /\ ~last.create_unknown_user
    /\ last.result # NoAccount
    /\ last.user_saved
    /\ db # last.pre_db

\* The calls of C5.
C5_Bag == [a \in {"uid"} |-> <<"alice">>]
C5_Session == [present |-> TRUE, has_ava |-> TRUE, ava |-> C5_Bag]
C5_FirstMapping ==
    [present |-> TRUE, items |-> <<[attr |-> "uid", fields |-> <<"username", "email">>]>>]
C5_SecondMapping ==
    [present |-> TRUE, items |-> <<[attr |-> "uid", fields |-> <<"email">>]>>]
C5_Created == [username |-> "alice", email |-> "alice", password |-> UNUSABLE_PASSWORD]

\* The first call of C5 on tables without alice: it creates the account with
\* username alice, an unusable credential and email alice.
C5_FirstCall ==
    (/\ last.op = "authenticate"
     /\ last.session_info = C5_Session
     /\ last.attribute_mapping = C5_FirstMapping
     /\ last.create_unknown_user
     /\ ByUsername(last.pre_db, "alice") = {})
    => /\ last.created
       /\ last.result \notin DOMAIN last.pre_db
       /\ last.result \in DOMAIN db
       /\ db[last.result] = C5_Created

\* The second call of C5 runs on the tables the first call left.
C5_SecondCallCase ==
    /\ last.op = "authenticate"
    /\ last.session_info = C5_Session
    /\ last.attribute_mapping = C5_SecondMapping
    /\ last.create_unknown_user
    /\ \E pk \in DOMAIN last.pre_db : last.pre_db[pk] = C5_Created

\* C5 as stated: the second call, whose mapping has no item for 'username',
\* returns the account of the first call and creates no other.
C5_AsStated ==
    /\ C5_FirstCall
    /\ C5_SecondCallCase =>
          /\ last.result \in ByUsername(last.pre_db, "alice")
          /\ DOMAIN db = DOMAIN last.pre_db

\* C5 amended: the first call creates alice with an unusable credential and
\* email alice; the second call, whose mapping has no item for 'username',
\* returns no account, changes no field and creates no account.
C5_SecondCallResolvesNothing ==
    /\ C5_FirstCall
    /\ C5_SecondCallCase =>
          /\ last.result = NoAccount
          /\ ~last.raised
          /\ db = last.pre_db
          /\ profiles = last.pre_profiles
          /\ ~last.user_saved

C5_Witness == C5_SecondCallCase /\ last.result = NoAccount

\* C9: after a successful authenticate the returned account's stored username
\* is clean_username of the raw value, for the default hook and an override.
C9_UsernameStaysCleaned ==
    (NamesUsername(last) /\ last.result # NoAccount) =>
        db[last.result].username =
            clean_username(hook, RawUsername(last.attribute_mapping, last.session_info.ava))

\* ---------------------------------------------------------------- claims: the hooks

\* The call recorded in last is a direct call of update_user or configure_user
\* that came back.
HookReturned == last.op \in {"update_user", "configure_user"} /\ ~last.raised

FieldNames == {"username", "email", "phone", "nickname"}

\* The items whose attribute is in the bag and that name field f.
Hits(mapping, attributes, f) ==
    {i \in DOMAIN mapping.items :
        /\ mapping.items[i].attr \in DOMAIN attributes
        /\ \E j \in DOMAIN mapping.items[i].fields : mapping.items[i].fields[j] = f}

\* The first bag value of the last of those items.
HitValue(mapping, attributes, f) ==
    LET h == Hits(mapping, attributes, f)
        i == CHOOSE k \in h : \A n \in h : n <= k
    IN  attributes[mapping.items[i].attr][1]

\* C6: configure_user, for every bag and every mapping, the empty one
\* included, has saved the account with the unusable credential when it
\* returns.
C6_ConfigurePersistsUnusable ==
    (last.op = "configure_user" /\ ~last.raised) =>
        /\ last.user_saved
        /\ db[last.pk].password = UNUSABLE_PASSWORD

\* C7 as stated: update_user saves the account only if one of the account's
\* fields changed value during the call, or force-save was requested.
C7_AsStated ==
    (HookReturned /\ last.user_saved) =>
        \/ last.force_save
        \/ \E f \in {"username", "email"} : db[last.pk][f] # last.pre_db[last.pk][f]

\* C7 amended: update_user saves the account only if the call assigned one of
\* the account's fields (to a new value or to the value it held), or
\* force-save was requested; a call with an empty mapping saves nothing.
C7_SavesOnlyIfAssignedOrForced ==
    HookReturned =>
        /\ last.user_saved =>
              \/ last.force_save
              \/ \E f \in {"username", "email"} :
                    Hits(last.attribute_mapping, last.session_info.ava, f) # {}
        /\ MappingEmpty(last.attribute_mapping) =>
              /\ ~last.user_saved /\ ~last.profile_saved
              /\ db = last.pre_db /\ profiles = last.pre_profiles

\* A call without force-save that assigned the values already held, and saved.
C7_Witness ==
    /\ last.op = "update_user" /\ ~last.force_save
    /\ last.user_saved
    /\ db = last.pre_db
    /\ Hits(last.attribute_mapping, last.session_info.ava, "email") # {}

\* C8: after update_user, every field a mapping item names whose attribute is
\* in the bag holds the bag's first value for that attribute: on the account
\* if the account has the field (the profile's field of that name untouched),
\* else on the profile if there is one and it has the field, else nowhere.
\* Items whose attribute is missing change nothing and do not stop the items
\* after them; fields no item names, the password and other rows are unchanged.
C8_FieldsSetWhereExposed ==
    (last.op = "update_user" /\ ~last.raised) =>
        LET pk == last.pk
            m == last.attribute_mapping
            a == last.session_info.ava
            has_profile == pk \in DOMAIN last.pre_profiles
        IN  /\ DOMAIN db = DOMAIN last.pre_db
            /\ DOMAIN profiles = DOMAIN last.pre_profiles
            /\ \A k \in DOMAIN db : k # pk => db[k] = last.pre_db[k]
            /\ \A k \in DOMAIN profiles : k # pk => profiles[k] = last.pre_profiles[k]
            /\ db[pk].password = last.pre_db[pk].password
            /\ \A f \in FieldNames :
                  IF f \in DOMAIN last.pre_db[pk]
                  THEN /\ db[pk][f] = IF Hits(m, a, f) # {} THEN HitValue(m, a, f)
                                      ELSE last.pre_db[pk][f]
                       /\ (has_profile /\ f \in DOMAIN last.pre_profiles[pk])
                             => profiles[pk][f] = last.pre_profiles[pk][f]
                  ELSE (has_profile /\ f \in DOMAIN last.pre_profiles[pk])
                             => profiles[pk][f] = IF Hits(m, a, f) # {}
                                                  THEN HitValue(m, a, f)
                                                  ELSE last.pre_profiles[pk][f]

\* The first item's attribute is missing, the second item is still applied:
\* nickname is skipped, phone goes to the profile, email stays as it was.
C8_Witness ==
    /\ last.op = "update_user" /\ ~last.raised
    /\ last.attribute_mapping.items =
          <<[attr |-> "uid", fields |-> <<"email">>],
            [attr |-> "mail", fields |-> <<"nickname", "phone">>]>>
    /\ DOMAIN last.session_info.ava = {"mail"}
    /\ last.pk \in DOMAIN profiles
    /\ last.profile_saved /\ ~last.user_saved
    /\ profiles[last.pk].phone = "Alice"
    /\ last.pre_profiles[last.pk].phone # "Alice"

\* ---------------------------------------------------------------- claims: concurrent requests

AllDone == \A p \in Procs : procs[p].pc = "done"

\* Every request asked, with create_unknown_user=true, for the same username,
\* which the tables did not hold before the requests began.
SameNewUsername(u) ==
    /\ \A p \in Procs : procs[p].create_unknown_user /\ procs[p].username = u
    /\ ByUsername(last.pre_db, u) = {}

\* C1: when concurrent authenticate calls with create_unknown_user=true for
\* the same new username have all finished, the table holds exactly one
\* account of that username, exactly one call created it and ran
\* configure_user, every other call ran update_user, and none raised.
C1_OneAccountCreated ==
    \A u \in Values :
        (AllDone /\ SameNewUsername(u)) =>
            /\ Cardinality(ByUsername(db, u)) = 1
            /\ Cardinality({p \in Procs : procs[p].created}) = 1
            /\ \A p \in Procs :
                  /\ ~procs[p].raised
                  /\ procs[p].result \in ByUsername(db, u)
                  /\ procs[p].ran = IF procs[p].created THEN "configure" ELSE "update"

C1_Witness ==
    /\ AllDone
    /\ \E u \in Values : SameNewUsername(u)
    /\ \E p \in Procs : ~procs[p].created

\* C10: when those calls have all finished, the stored account's credential
\* is unusable.
C10_CredentialStaysUnusable ==
    \A u \in Values :
        (AllDone /\ SameNewUsername(u)) =>
            \A pk \in ByUsername(db, u) : db[pk].password = UNUSABLE_PASSWORD

====
